---- MODULE Spec2Model ----
(***************************************************************************)
(* A model of fetcher/fetcher.py: the Fetcher class with its two in-memory *)
(* caches, the two JSON cache files, and the operations fetch,             *)
(* simple_fetch, get_url_domain, retrieve_article_info,                    *)
(* retrieve_article_contents, saveCacheToStorage and readCacheFromStorage. *)
(*                                                                         *)
(* Python values are modelled as follows.                                  *)
(*   - a dict is a function whose DOMAIN is the set of its keys;           *)
(*   - a list is a sequence;                                               *)
(*   - a time value is [type, t]: type "struct_time" for the tuple         *)
(*     subclass feedparser produces, "array" for its JSON encoding,        *)
(*     "list" for what json.loads gives back, "missing" for an entry       *)
(*     without published_parsed;                                           *)
(*   - a str that the code splits is a sequence of one-character strings;  *)
(*   - an exception that leaves a method is raised = TRUE in lastCall.     *)
(***************************************************************************)
EXTENDS Integers, Sequences, FiniteSets, TLC

VARIABLES
    use_storage_for_cache,   \* self.use_storage_for_cache
    cached_simple_fetch,     \* self.__cached_simple_fetch : CACHE_KEY -> list
    cached_articles_info,    \* self.__cached_articles_info : CACHE_KEY -> dict
    file_simple_fetch,       \* fetcher__cached_simple_fetch.json
    file_articles_info,      \* fetcher__cached_articles_info.json
    lastCall                 \* the last call made on the Fetcher and its outcome

vars == <<use_storage_for_cache, cached_simple_fetch, cached_articles_info,
          file_simple_fetch, file_articles_info, lastCall>>

(***************************************************************************)
(* Bounds of the model.                                                    *)
(***************************************************************************)
MaxSrcs == 2      \* longest explicit list of sources passed to fetch
MaxChunks == 6    \* longest URL string, in chunks, passed to get_url_domain

(***************************************************************************)
(* Feeds.                                                                  *)
(***************************************************************************)
Feed(name, url) == [name |-> name, url |-> url]

feeds ==
    << Feed("CNA", "https://www.channelnewsasia.com/rssfeeds/8395986"),
       Feed("BBC", "http://feeds.bbci.co.uk/news/rss.xml"),
       Feed("StraitsTimes", "https://www.straitstimes.com/news/world/rss.xml") >>

FeedSet == {feeds[i] : i \in DOMAIN feeds}
FeedUrls == {f.url : f \in FeedSet}

\* The srcs argument: None, a single Feed, or a list of Feed objects.
SrcsNone == [kind |-> "None"]
SrcsFeed(f) == [kind |-> "Feed", feed |-> f]
SrcsList(l) == [kind |-> "list", list |-> l]

RECURSIVE SeqsUpTo(_, _)
SeqsUpTo(S, n) ==
    IF n = 0 THEN {<<>>}
    ELSE LET shorter == SeqsUpTo(S, n - 1)
         IN  shorter \cup {Append(s, x) : s \in shorter, x \in S}

(***************************************************************************)
(* Feed entries, as feedparser returns them.                               *)
(***************************************************************************)
StructTime(n) == [type |-> "struct_time", t |-> n]
NoTime == [type |-> "missing", t |-> 0]
NoSummary == <<"__absent__">>

Entry(href, title, published, summary) ==
    [href |-> href, title |-> title, published_parsed |-> published,
     summary |-> summary]

\* What feedparser.parse gives for one source: an exception, or entries.
ParseFailure == [ok |-> FALSE, entries |-> <<>>]
Parsed(entries) == [ok |-> TRUE, entries |-> entries]

(***************************************************************************)
(* list.sort(key = published_parsed, reverse = True): a stable sort, the   *)
(* entries with equal keys keep their order.                               *)
(***************************************************************************)
RECURSIVE InsertDescending(_, _)
InsertDescending(sorted, e) ==
    IF sorted = <<>> THEN <<e>>
    ELSE IF Head(sorted).published_parsed.t >= e.published_parsed.t
         THEN <<Head(sorted)>> \o InsertDescending(Tail(sorted), e)
         ELSE <<e>> \o sorted

RECURSIVE SortByPublishedAscending(_)
SortByPublishedAscending(res) ==
    IF res = <<>> THEN <<>>
    ELSE LET rest == SortByPublishedAscending(Tail(res))
             e == Head(res)
             smaller == SelectSeq(rest, LAMBDA x : x.published_parsed.t < e.published_parsed.t)
             others == SelectSeq(rest, LAMBDA x : x.published_parsed.t >= e.published_parsed.t)
         IN  smaller \o <<e>> \o others

RECURSIVE SortByPublishedDescending(_)
SortByPublishedDescending(res) ==
    IF res = <<>> THEN <<>>
    ELSE InsertDescending(SortByPublishedDescending(SubSeq(res, 1, Len(res) - 1)),
                          res[Len(res)])

(***************************************************************************)
(* Fetcher.fetch: net maps a feed url to what feedparser.parse gives.      *)
(* The result is [raised, value]; the sort raises when an entry has no     *)
(* published_parsed.                                                       *)
(***************************************************************************)
RECURSIVE ConcatenateUntilFailure(_, _)
ConcatenateUntilFailure(srcs, net) ==
    IF srcs = <<>> THEN <<>>
    ELSE LET feed == net[Head(srcs).url]
         IN  IF feed.ok
             THEN feed.entries \o ConcatenateUntilFailure(Tail(srcs), net)
             ELSE <<>>

RECURSIVE Concatenate(_, _)
Concatenate(srcs, net) ==
    IF srcs = <<>> THEN <<>>
    ELSE LET feed == net[Head(srcs).url]
         IN  (IF feed.ok THEN feed.entries ELSE <<>>)
             \o Concatenate(Tail(srcs), net)

fetch(srcs, net) ==
    LET list == IF srcs.kind = "None" THEN feeds
                ELSE IF srcs.kind = "Feed" THEN <<srcs.feed>>
                ELSE srcs.list
        res == Concatenate(list, net)
    IN  IF \E i \in DOMAIN res : res[i].published_parsed.type = "missing"
        THEN [raised |-> TRUE, value |-> <<>>]
        ELSE [raised |-> FALSE, value |-> SortByPublishedDescending(res)]

(***************************************************************************)
(* utils.clean_html: strips the markup of a summary.  A summary is a       *)
(* sequence of tokens, the tokens of HtmlTags being markup.                *)
(***************************************************************************)
HtmlTags == {"<p>", "</p>"}
PyNone == <<"__None__">>

clean_html(summary) == SelectSeq(summary, LAMBDA tok : tok \notin HtmlTags)

(***************************************************************************)
(* simple_fetch: the cache key and the projection of an entry.             *)
(* str(set(...)) is taken to be a function of the set of urls; None and    *)
(* the empty list give the same key, "URL<None>".                          *)
(***************************************************************************)
KeyOfNone == [none |-> TRUE, urls |-> {}]
KeyOfSet(urls) == [none |-> FALSE, urls |-> urls]

simple_CACHE_KEY(srcs) ==
    IF srcs.kind = "None" \/ (srcs.kind = "list" /\ srcs.list = <<>>)
    THEN KeyOfNone
    ELSE KeyOfSet({srcs.list[i].url : i \in DOMAIN srcs.list})

Simplify(entry) ==
    [url |-> entry.href,
     title |-> entry.title,
     published_on |-> entry.published_parsed,
     short_summary |-> IF entry.summary = NoSummary THEN PyNone
                       ELSE clean_html(entry.summary)]

EmptyDict == [k \in {} |-> 0]

Put(dict, key, value) ==
    [k \in DOMAIN dict \cup {key} |-> IF k = key THEN value ELSE dict[k]]

\* The outcome of simple_fetch on a given cache, before any flush: raised,
\* the returned list, the cache afterwards, whether an entry was inserted
\* and whether fetch (the network) was called.
FetchAndStore(cache, srcs, cached, net) ==
    LET CACHE_KEY == simple_CACHE_KEY(srcs)
        data == fetch(srcs, net)
        final_data == [i \in DOMAIN data.value |-> Simplify(data.value[i])]
    IN  IF data.raised
        THEN [raised |-> TRUE, result |-> <<>>, cache |-> cache,
              inserted |-> FALSE, net |-> TRUE]
        ELSE [raised |-> FALSE, result |-> final_data,
              cache |-> IF cached /\ final_data # <<>>
                        THEN Put(cache, CACHE_KEY, final_data)
                        ELSE cache,
              inserted |-> cached /\ final_data # <<>>,
              net |-> TRUE]

TypeErrorOnFeed(cache) ==
    [raised |-> TRUE, result |-> <<>>, cache |-> cache,
     inserted |-> FALSE, net |-> FALSE]

simple_fetch_never_hit(cache, srcs, cached, net) ==
    IF srcs.kind = "Feed"
    THEN TypeErrorOnFeed(cache)
    ELSE FetchAndStore(cache, srcs, cached, net)

simple_fetch(cache, srcs, cached, net) ==
    IF srcs.kind = "Feed"
    THEN \* map() over a Feed object: TypeError while computing CACHE_KEY
         TypeErrorOnFeed(cache)
    ELSE LET CACHE_KEY == simple_CACHE_KEY(srcs)
         IN  IF cached /\ CACHE_KEY \in DOMAIN cache
             THEN [raised |-> FALSE, result |-> cache[CACHE_KEY], cache |-> cache,
                   inserted |-> FALSE, net |-> FALSE]
             ELSE FetchAndStore(cache, srcs, cached, net)

(***************************************************************************)
(* json.dumps / json.loads on the two caches.  A struct_time is a tuple    *)
(* and is written as a JSON array; a JSON array is read back as a list.    *)
(* str, int, bool and None values, and dicts with str keys, are written    *)
(* and read back as themselves.                                            *)
(***************************************************************************)
DumpTime(time) == [type |-> "array", t |-> time.t]
LoadTime(time) == [type |-> "list", t |-> time.t]

json_dumps_simple_fetch(cache) ==
    [k \in DOMAIN cache |->
        [i \in DOMAIN cache[k] |->
            [cache[k][i] EXCEPT !.published_on = DumpTime(@)]]]

json_loads_simple_fetch(doc) ==
    [k \in DOMAIN doc |->
        [i \in DOMAIN doc[k] |->
            [doc[k][i] EXCEPT !.published_on = LoadTime(@)]]]

json_dumps_articles_info(cache) == [k \in DOMAIN cache |-> cache[k]]

json_loads_articles_info(doc) == [k \in DOMAIN doc |-> doc[k]]

(***************************************************************************)
(* The two cache files: a file exists or not, and holds a JSON document.   *)
(***************************************************************************)
NoFile == [exists |-> FALSE, content |-> EmptyDict]
File(doc) == [exists |-> TRUE, content |-> doc]

\* saveCacheToStorage: the two files after the call.
saveOnlyFirstFile(simple, articles, old_simple_file, old_articles_file) ==
    [simple_fetch |-> File(json_dumps_simple_fetch(simple)),
     articles_info |-> old_articles_file]

saveCacheToStorage(simple, articles, old_simple_file, old_articles_file) ==
    [simple_fetch |-> File(json_dumps_simple_fetch(simple)),
     articles_info |-> File(json_dumps_articles_info(articles))]

\* readCacheFromStorage: the two caches after the call.
readOnlySimpleFile(simple, articles, simple_file, articles_file) ==
    [simple_fetch |-> IF simple_file.exists
                      THEN json_loads_simple_fetch(simple_file.content)
                      ELSE simple,
     articles_info |-> articles]

readCacheFromStorage(simple, articles, simple_file, articles_file) ==
    [simple_fetch |-> IF simple_file.exists
                      THEN json_loads_simple_fetch(simple_file.content)
                      ELSE simple,
     articles_info |-> IF articles_file.exists
                       THEN json_loads_articles_info(articles_file.content)
                       ELSE articles]

(***************************************************************************)
(* retrieve_article_info.  The answer of the network to requests.get and   *)
(* of newspaper.fulltext followed by the clean-up substitutions is resp:   *)
(*   [kind |-> "RequestException", message]                                *)
(*   [kind |-> "response", status_code, text, extracted, plain_text]       *)
(* where extracted = FALSE stands for an exception in the extraction and   *)
(* plain_text is the text after the substitutions of lines 149-155.        *)
(***************************************************************************)
RequestException(message) == [kind |-> "RequestException", message |-> message]
Response(status_code, text, extracted, plain_text) ==
    [kind |-> "response", status_code |-> status_code, text |-> text,
     extracted |-> extracted, plain_text |-> plain_text]

NoResponse == [kind |-> "none"]

article_CACHE_KEY(url) == <<"URL", url>>

IsSuccessStatus(status_code) == 200 <= status_code /\ status_code < 300

\* The record built from a response (lines 133-161 and 167-168).
ResultOfResponse(resp) ==
    IF IsSuccessStatus(resp.status_code) /\ resp.extracted
    THEN [text |-> resp.text, status_code |-> resp.status_code,
          success |-> TRUE, plain_text |-> resp.plain_text]
    ELSE [text |-> resp.text, status_code |-> resp.status_code,
          success |-> FALSE]

\* The record returned when requests.get raises (line 131).
TransportFailureWithStatus(resp) ==
    [text |-> resp.message, status_code |-> 0, success |-> FALSE]

TransportFailureRecord(resp) == [text |-> resp.message, success |-> FALSE]

\* Whether the record is stored in the cache (lines 137 and 163).
StoreWheneverCached(cached, result) == cached

StoreEvenUncached(cached, result) ==
    IsSuccessStatus(result.status_code) /\ result.success

ShouldStore(cached, result) ==
    IsSuccessStatus(result.status_code) /\ cached /\ result.success

\* The outcome: raised, the returned record, the cache afterwards, whether
\* an entry was inserted and whether requests.get was called.
retrieve_article_info(cache, url, cached, resp) ==
    LET CACHE_KEY == article_CACHE_KEY(url)
    IN  IF cached /\ CACHE_KEY \in DOMAIN cache
        THEN LET result == cache[CACHE_KEY]
             IN  IF "plain_text" \notin DOMAIN result
                 THEN \* KeyError: 'plain_text'
                      [raised |-> TRUE, result |-> EmptyDict, cache |-> cache,
                       inserted |-> FALSE, net |-> FALSE]
                 ELSE LET written == [result EXCEPT !.plain_text = result.plain_text]
                      IN  [raised |-> FALSE, result |-> written,
                           cache |-> [cache EXCEPT ![CACHE_KEY] = written],
                           inserted |-> FALSE, net |-> FALSE]
        ELSE IF resp.kind = "RequestException"
             THEN [raised |-> FALSE,
                   result |-> TransportFailureRecord(resp),
                   cache |-> cache, inserted |-> FALSE, net |-> TRUE]
             ELSE LET result == ResultOfResponse(resp)
                      store == ShouldStore(cached, result)
                  IN  [raised |-> FALSE, result |-> result,
                       cache |-> IF store THEN Put(cache, CACHE_KEY, result)
                                 ELSE cache,
                       inserted |-> store, net |-> TRUE]

(***************************************************************************)
(* retrieve_article_contents: "Error <status_code>" is [error, code].      *)
(***************************************************************************)
ErrorString(status_code) == [error |-> TRUE, code |-> status_code, text |-> ""]
PlainString(text) == [error |-> FALSE, code |-> 0, text |-> text]

retrieve_article_contents(cache, url, resp) ==
    LET data == retrieve_article_info(cache, url, TRUE, resp)
    IN  IF data.raised
        THEN [data EXCEPT !.result = PlainString("")] @@ [info |-> data.result]
        ELSE IF ~data.result.success
             THEN IF "status_code" \notin DOMAIN data.result
                  THEN \* KeyError: 'status_code'
                       [data EXCEPT !.raised = TRUE, !.result = PlainString("")]
                       @@ [info |-> data.result]
                  ELSE [data EXCEPT !.result = ErrorString(data.result.status_code)]
                       @@ [info |-> data.result]
             ELSE [data EXCEPT !.result = PlainString(data.result.plain_text)]
                  @@ [info |-> data.result]

(***************************************************************************)
(* get_url_domain.  str.split('/') gives the pieces between the slashes,   *)
(* one more than there are slashes.  The result is [none, value].          *)
(***************************************************************************)
RECURSIVE Split(_, _)
Split(str, sep) ==
    IF \A i \in DOMAIN str : str[i] # sep
    THEN <<str>>
    ELSE LET i == CHOOSE j \in DOMAIN str :
                      str[j] = sep /\ \A k \in 1..(j - 1) : str[k] # sep
         IN  <<SubSeq(str, 1, i - 1)>> \o Split(SubSeq(str, i + 1, Len(str)), sep)

http == <<"h", "t", "t", "p">>
https == <<"h", "t", "t", "p", "s">>

ReturnsNone == [none |-> TRUE, value |-> <<>>]
Returns(value) == [none |-> FALSE, value |-> value]

get_url_domain(url) ==
    LET comp == Split(url, "/")
    IN  IF Len(comp) < 2
        THEN ReturnsNone                  \* IndexError on comp[1]
        ELSE IF comp[2] = <<>> /\ (comp[1] = http \/ comp[1] = https)
             THEN IF Len(comp) < 3
                  THEN ReturnsNone        \* IndexError on split('/')[2]
                  ELSE Returns(comp[3])
             ELSE ReturnsNone

(***************************************************************************)
(* The environment: what the feeds and the article server may answer.      *)
(***************************************************************************)
CNA == feeds[1]
BBC == feeds[2]
StraitsTimes == feeds[3]

EntriesOf(url) ==
    IF url = CNA.url
    THEN << Entry("cna/1", "cna 1", StructTime(1), <<"<p>", "cna 1", "</p>">>),
            Entry("cna/3", "cna 3", StructTime(3), NoSummary) >>
    ELSE IF url = BBC.url
    THEN << Entry("bbc/2", "bbc 2", StructTime(2), <<"bbc 2">>) >>
    ELSE << Entry("st/2", "st 2", StructTime(2), NoSummary) >>

UndatedEntriesOf(url) ==
    << Entry("undated", "undated", NoTime, NoSummary) >> \o EntriesOf(url)

\* The answers of one feed, and the networks fetch is checked on.
FeedAnswers(url) ==
    {ParseFailure, Parsed(<<>>), Parsed(EntriesOf(url)), Parsed(UndatedEntriesOf(url))}

AllNets == {net \in [FeedUrls -> UNION {FeedAnswers(u) : u \in FeedUrls}] :
               \A u \in FeedUrls : net[u] \in FeedAnswers(u)}

\* The networks the Fetcher as a whole is checked on.
NetAllParsed == [u \in FeedUrls |-> Parsed(EntriesOf(u))]
NetAllFailing == [u \in FeedUrls |-> ParseFailure]
NetUndated == [u \in FeedUrls |-> Parsed(UndatedEntriesOf(u))]

Nets == {NetAllParsed, NetAllFailing, NetUndated}

AllSrcs ==
    {SrcsNone} \cup {SrcsFeed(f) : f \in FeedSet}
    \cup {SrcsList(l) : l \in SeqsUpTo(FeedSet, MaxSrcs)}

Srcs ==
    {SrcsNone, SrcsFeed(CNA)}
    \cup {SrcsList(l) : l \in SeqsUpTo({CNA}, MaxSrcs - 1)}

ArticleUrls == {"https://example.com/a"}

StatusCodes == {199, 200, 299, 300}

Responses ==
    {RequestException("connection refused")}
    \cup {Response(sc, "<html>", FALSE, "") : sc \in StatusCodes}
    \cup {Response(sc, "<html>", TRUE, "plain text") :
            sc \in {c \in StatusCodes : IsSuccessStatus(c)}}

(***************************************************************************)
(* The state after Fetcher(use_storage_for_cache) in a directory without   *)
(* cache files.                                                            *)
(***************************************************************************)
\* The record of a call.  previous tells how this call follows the one
\* before it: "same, succeeded" or "same, failed" when that was the same
\* method on the same argument, "other" otherwise.
Succeeded(op, outcome) ==
    /\ ~outcome.raised
    /\ CASE op = "simple_fetch" -> outcome.result # <<>>
         [] op = "retrieve_article_info" -> outcome.result.success
         [] op = "retrieve_article_contents" -> ~outcome.result.error
         [] OTHER -> TRUE

Call(op, arg, cached, outcome) ==
    [op |-> op, arg |-> arg, cached |-> cached, net |-> outcome.net,
     raised |-> outcome.raised, result |-> outcome.result,
     inserted |-> outcome.inserted,
     succeeded |-> Succeeded(op, outcome),
     previous |-> IF lastCall.op = op /\ lastCall.arg = arg
                  THEN IF lastCall.succeeded THEN "same, succeeded"
                       ELSE "same, failed"
                  ELSE "other"]

NoOutcome == [net |-> FALSE, raised |-> FALSE, result |-> <<>>, inserted |-> FALSE]

Init ==
    /\ use_storage_for_cache \in BOOLEAN
    /\ cached_simple_fetch = EmptyDict
    /\ cached_articles_info = EmptyDict
    /\ file_simple_fetch = NoFile
    /\ file_articles_info = NoFile
    /\ lastCall = [op |-> "__init__", arg |-> use_storage_for_cache,
                   cached |-> FALSE, net |-> FALSE, raised |-> FALSE,
                   result |-> <<>>, inserted |-> FALSE, succeeded |-> TRUE,
                   previous |-> "other"]

\* Fetcher(flag): a new instance takes the place of the old one; the files stay.
Construct ==
    \E flag \in BOOLEAN :
        LET read == readCacheFromStorage(EmptyDict, EmptyDict,
                                         file_simple_fetch, file_articles_info)
        IN  /\ use_storage_for_cache' = flag
            /\ cached_simple_fetch' = IF flag THEN read.simple_fetch ELSE EmptyDict
            /\ cached_articles_info' = IF flag THEN read.articles_info ELSE EmptyDict
            /\ lastCall' = Call("__init__", flag, FALSE, NoOutcome)
            /\ UNCHANGED <<file_simple_fetch, file_articles_info>>

\* The flush of lines 91-92 and 165-166.
FlushWhateverTheFlag(inserted, simple, articles) ==
    IF inserted
    THEN LET files == saveCacheToStorage(simple, articles,
                                         file_simple_fetch, file_articles_info)
         IN  /\ file_simple_fetch' = files.simple_fetch
             /\ file_articles_info' = files.articles_info
    ELSE UNCHANGED <<file_simple_fetch, file_articles_info>>

Flush(inserted, simple, articles) ==
    IF inserted /\ use_storage_for_cache
    THEN LET files == saveCacheToStorage(simple, articles,
                                         file_simple_fetch, file_articles_info)
         IN  /\ file_simple_fetch' = files.simple_fetch
             /\ file_articles_info' = files.articles_info
    ELSE UNCHANGED <<file_simple_fetch, file_articles_info>>

SimpleFetch ==
    \E srcs \in Srcs, cached \in BOOLEAN, net \in Nets :
        LET out == simple_fetch(cached_simple_fetch, srcs, cached, net)
        IN  /\ cached_simple_fetch' = out.cache
            /\ Flush(out.inserted, out.cache, cached_articles_info)
            /\ lastCall' = Call("simple_fetch", srcs, cached, out)
            /\ UNCHANGED <<use_storage_for_cache, cached_articles_info>>

RetrieveArticleInfo ==
    \E url \in ArticleUrls, cached \in BOOLEAN, resp \in Responses :
        LET out == retrieve_article_info(cached_articles_info, url, cached, resp)
        IN  /\ cached_articles_info' = out.cache
            /\ Flush(out.inserted, cached_simple_fetch, out.cache)
            /\ lastCall' = Call("retrieve_article_info", url, cached, out)
                               @@ [resp |-> IF out.net THEN resp ELSE NoResponse]
            /\ UNCHANGED <<use_storage_for_cache, cached_simple_fetch>>

RetrieveArticleContents ==
    \E url \in ArticleUrls, resp \in Responses :
        LET out == retrieve_article_contents(cached_articles_info, url, resp)
        IN  /\ cached_articles_info' = out.cache
            /\ Flush(out.inserted, cached_simple_fetch, out.cache)
            /\ lastCall' = Call("retrieve_article_contents", url, TRUE, out)
                               @@ [info |-> out.info]
            /\ UNCHANGED <<use_storage_for_cache, cached_simple_fetch>>

SaveCacheToStorage ==
    LET files == saveCacheToStorage(cached_simple_fetch, cached_articles_info,
                                    file_simple_fetch, file_articles_info)
    IN  /\ file_simple_fetch' = files.simple_fetch
        /\ file_articles_info' = files.articles_info
        /\ lastCall' = Call("saveCacheToStorage", <<>>, FALSE, NoOutcome)
        /\ UNCHANGED <<use_storage_for_cache, cached_simple_fetch,
                       cached_articles_info>>

ReadCacheFromStorage ==
    LET read == readCacheFromStorage(cached_simple_fetch, cached_articles_info,
                                     file_simple_fetch, file_articles_info)
    IN  /\ cached_simple_fetch' = read.simple_fetch
        /\ cached_articles_info' = read.articles_info
        /\ lastCall' = Call("readCacheFromStorage", <<>>, FALSE, NoOutcome)
        /\ UNCHANGED <<use_storage_for_cache, file_simple_fetch,
                       file_articles_info>>

Next ==
    \/ Construct
    \/ SimpleFetch
    \/ RetrieveArticleInfo
    \/ RetrieveArticleContents
    \/ SaveCacheToStorage
    \/ ReadCacheFromStorage

Spec == Init /\ [][Next]_vars

(***************************************************************************)
(* fetch on its own, over every list of sources up to MaxSrcs and every    *)
(* combination of answers of the three feeds.                              *)
(***************************************************************************)
Unchanged_fetcher ==
    UNCHANGED <<use_storage_for_cache, cached_simple_fetch, cached_articles_info,
                file_simple_fetch, file_articles_info>>

InitFetch ==
    /\ use_storage_for_cache = FALSE
    /\ cached_simple_fetch = EmptyDict
    /\ cached_articles_info = EmptyDict
    /\ file_simple_fetch = NoFile
    /\ file_articles_info = NoFile
    /\ \E srcs \in AllSrcs, net \in AllNets :
          lastCall = [op |-> "call fetch", arg |-> srcs, answers |-> net]

Fetch ==
    /\ lastCall.op = "call fetch"
    /\ LET out == fetch(lastCall.arg, lastCall.answers)
       IN  lastCall' = [op |-> "fetch", arg |-> lastCall.arg,
                        answers |-> lastCall.answers,
                        raised |-> out.raised, result |-> out.value]
    /\ Unchanged_fetcher

NextFetch == Fetch

SpecFetch == InitFetch /\ [][NextFetch]_vars

(***************************************************************************)
(* get_url_domain on its own, over the strings made of at most MaxChunks   *)
(* of the pieces "http", "https", ":", "/" and "e".                        *)
(***************************************************************************)
Chunks == {http, https, <<":">>, <<"/">>, <<"e">>}

RECURSIVE Flatten(_)
Flatten(chunks) ==
    IF chunks = <<>> THEN <<>> ELSE Head(chunks) \o Flatten(Tail(chunks))

UrlStrings == {Flatten(c) : c \in SeqsUpTo(Chunks, MaxChunks)}

InitDomain ==
    /\ use_storage_for_cache = FALSE
    /\ cached_simple_fetch = EmptyDict
    /\ cached_articles_info = EmptyDict
    /\ file_simple_fetch = NoFile
    /\ file_articles_info = NoFile
    /\ \E url \in UrlStrings : lastCall = [op |-> "call get_url_domain", arg |-> url]

GetUrlDomain ==
    /\ lastCall.op = "call get_url_domain"
    /\ lastCall' = [op |-> "get_url_domain", arg |-> lastCall.arg,
                    result |-> get_url_domain(lastCall.arg)]
    /\ Unchanged_fetcher

NextDomain == GetUrlDomain

SpecDomain == InitDomain /\ [][NextDomain]_vars

(***************************************************************************)
(* Vocabulary of the properties.                                           *)
(***************************************************************************)
IsSimpleFetch(call) == call.op = "simple_fetch"
IsArticleInfo(call) == call.op = "retrieve_article_info"
IsArticleContents(call) == call.op = "retrieve_article_contents"

\* The call fetched a response whose status is outside [200,300).
GotNon2xx(call) ==
    /\ IsArticleInfo(call)
    /\ call.net
    /\ "status_code" \in DOMAIN call.result
    /\ ~IsSuccessStatus(call.result.status_code)

\* Two calls in a row are the same request, both with cached = true.
SameCachedRequest(first, second) ==
    /\ IsSimpleFetch(first) \/ IsArticleInfo(first)
    /\ second.op = first.op
    /\ second.arg = first.arg
    /\ first.cached /\ second.cached

ServedAgain(first, second) ==
    /\ ~second.raised
    /\ second.result = first.result
    /\ ~second.net

\* C1 as stated: a request issued twice in a row with cached = true returns
\* the first result the second time and makes no new network call.
C1_Original ==
    [][SameCachedRequest(lastCall, lastCall') /\ ~lastCall.raised
          => ServedAgain(lastCall, lastCall')]_vars

\* C1 amended: when the first of two identical calls with cached = true
\* returned a successful result (a non-empty list for simple_fetch, a record
\* with success = true for retrieve_article_info), the second call returns
\* exactly that result and makes no network call.
C1_RepeatedSuccessfulRequest ==
    [][SameCachedRequest(lastCall, lastCall') /\ lastCall.succeeded
          => ServedAgain(lastCall, lastCall')]_vars

C1_Witness ==
    /\ IsSimpleFetch(lastCall) \/ IsArticleInfo(lastCall)
    /\ lastCall.cached
    /\ lastCall.previous = "same, succeeded"
    /\ lastCall.succeeded
    /\ ~lastCall.net

\* The record returned for a status outside [200,300).
Non2xxRecord(call) ==
    /\ ~call.raised
    /\ DOMAIN call.result = {"text", "status_code", "success"}
    /\ call.result.success = FALSE
    /\ ~call.inserted

\* C2 as stated: a response with a status outside [200,300) gives a record
\* with success = false, text and status_code and no plain_text, nothing is
\* stored, and the next call for the same URL, cached or not, issues a GET.
C2_Original ==
    [][/\ GotNon2xx(lastCall') => Non2xxRecord(lastCall')
       /\ GotNon2xx(lastCall) /\ IsArticleInfo(lastCall')
            /\ lastCall'.arg = lastCall.arg
          => lastCall'.net]_vars

\* C2 amended: a response with a status outside [200,300) gives a record
\* with success = false, text and status_code and no plain_text, and the
\* call leaves the article cache and both files as they were; a later call
\* for the same URL issues a new GET unless it is made with cached = true
\* and the URL is in the cache from an earlier successful call.
C2_Non2xxNotStored ==
    [][/\ GotNon2xx(lastCall')
          => /\ Non2xxRecord(lastCall')
             /\ UNCHANGED <<cached_articles_info, cached_simple_fetch,
                            file_simple_fetch, file_articles_info>>
       /\ GotNon2xx(lastCall) /\ IsArticleInfo(lastCall')
            /\ lastCall'.arg = lastCall.arg
            /\ ~(lastCall'.cached
                 /\ article_CACHE_KEY(lastCall.arg) \in DOMAIN cached_articles_info)
          => lastCall'.net]_vars

\* A call with cached = true got a non-2xx status, and so did the call for
\* the same URL before it: the URL was fetched again.
C2_Witness ==
    /\ GotNon2xx(lastCall)
    /\ lastCall.cached
    /\ lastCall.previous = "same, failed"
    /\ article_CACHE_KEY(lastCall.arg) \notin DOMAIN cached_articles_info

\* C3: retrieve_article_info never raises and its record carries success.
C3_InfoNeverRaises ==
    IsArticleInfo(lastCall)
        => /\ ~lastCall.raised
           /\ "success" \in DOMAIN lastCall.result

\* A call served from a cache that was read back from the file.
C3_Witness ==
    /\ IsArticleInfo(lastCall)
    /\ ~lastCall.net
    /\ use_storage_for_cache
    /\ file_articles_info.exists
    /\ "success" \in DOMAIN lastCall.result

\* C4 as stated: retrieve_article_contents returns the plain text when the
\* info call succeeds and "Error <status_code>" for every failure; it never
\* raises.
C4_Original ==
    IsArticleContents(lastCall)
        => /\ ~lastCall.raised
           /\ IF lastCall.info.success
              THEN lastCall.result = PlainString(lastCall.info.plain_text)
              ELSE /\ "status_code" \in DOMAIN lastCall.info
                   /\ lastCall.result = ErrorString(lastCall.info.status_code)

(***************************************************************************)
(* get_url_domain: what the documentation asks of it.                      *)
(***************************************************************************)
StartsWith(str, prefix) ==
    Len(str) >= Len(prefix) /\ SubSeq(str, 1, Len(prefix)) = prefix

HttpPrefixes == {http \o <<":", "/", "/">>, https \o <<":", "/", "/">>}

HostAfter(url, prefix) ==
    Head(Split(SubSeq(url, Len(prefix) + 1, Len(url)), "/"))

\* http://host... or https://host... with a host
IsAbsoluteHttp(url) ==
    \E prefix \in HttpPrefixes :
        StartsWith(url, prefix) /\ HostAfter(url, prefix) # <<>>

HostOf(url) ==
    HostAfter(url, CHOOSE prefix \in HttpPrefixes : StartsWith(url, prefix))

\* scheme://host... for any scheme
HasSchemeHostShape(url) ==
    \E i \in 2..(Len(url) - 3) :
        /\ url[i] = ":" /\ url[i + 1] = "/" /\ url[i + 2] = "/"
        /\ \A k \in 1..(i - 1) : url[k] \notin {":", "/"}
        /\ url[i + 3] # "/"

\* C5 as stated: get_url_domain returns the host of every absolute http or
\* https URL and null for every URL that is not of the scheme://host shape.
C5_Original ==
    lastCall.op = "get_url_domain"
        => /\ IsAbsoluteHttp(lastCall.arg)
                => lastCall.result = Returns(HostOf(lastCall.arg))
           /\ ~HasSchemeHostShape(lastCall.arg)
                => lastCall.result = ReturnsNone

\* C6 as stated: after saveCacheToStorage, a new Fetcher with disk caching
\* enabled holds two caches equal to those of the instance that wrote them.
C6_Original ==
    [][lastCall.op = "saveCacheToStorage" /\ lastCall'.op = "__init__"
          /\ use_storage_for_cache'
          => /\ cached_simple_fetch' = cached_simple_fetch
             /\ cached_articles_info' = cached_articles_info]_vars

\* C7: fetch returns the merged entries in non-increasing order of
\* publication time, whatever the order of the sources.
C7_FetchSorted ==
    lastCall.op = "fetch" /\ ~lastCall.raised
        => \A i \in 1..(Len(lastCall.result) - 1) :
              lastCall.result[i].published_parsed.t
                  >= lastCall.result[i + 1].published_parsed.t

\* Several sources whose entries, put end to end, were not in order.
C7_Witness ==
    /\ lastCall.op = "fetch"
    /\ ~lastCall.raised
    /\ lastCall.arg.kind = "list"
    /\ Len(lastCall.arg.list) >= 2
    /\ Len(lastCall.result) >= 3
    /\ lastCall.result # Concatenate(lastCall.arg.list, lastCall.answers)

Kept(before, after) ==
    \A k \in DOMAIN before : k \in DOMAIN after /\ after[k] = before[k]

\* C8: no call of simple_fetch or retrieve_article_info (or of
\* retrieve_article_contents, which calls the latter) changes or removes a
\* mapping of either in-memory cache.
C8_WriteOnce ==
    [][IsSimpleFetch(lastCall') \/ IsArticleInfo(lastCall')
          \/ IsArticleContents(lastCall')
          => /\ Kept(cached_simple_fetch, cached_simple_fetch')
             /\ Kept(cached_articles_info, cached_articles_info')]_vars

\* A fetch that succeeded with another record than the one in the cache.
C8_Witness ==
    /\ IsArticleInfo(lastCall)
    /\ lastCall.net
    /\ lastCall.succeeded
    /\ article_CACHE_KEY(lastCall.arg) \in DOMAIN cached_articles_info
    /\ cached_articles_info[article_CACHE_KEY(lastCall.arg)] # lastCall.result

\* C9: every record of the article cache has success = true, a status in
\* [200,300) and a plain_text; every list of the simple_fetch cache is
\* non-empty.
C9_OnlySuccessfulStored ==
    /\ \A k \in DOMAIN cached_articles_info :
          /\ "success" \in DOMAIN cached_articles_info[k]
          /\ cached_articles_info[k].success
          /\ "status_code" \in DOMAIN cached_articles_info[k]
          /\ IsSuccessStatus(cached_articles_info[k].status_code)
          /\ "plain_text" \in DOMAIN cached_articles_info[k]
    /\ \A k \in DOMAIN cached_simple_fetch : cached_simple_fetch[k] # <<>>

\* A cached = true call whose extraction failed, with both caches filled.
C9_Witness ==
    /\ IsArticleInfo(lastCall)
    /\ lastCall.cached
    /\ lastCall.net
    /\ "status_code" \in DOMAIN lastCall.result
    /\ IsSuccessStatus(lastCall.result.status_code)
    /\ ~lastCall.result.success
    /\ cached_simple_fetch # EmptyDict

\* C10: with disk caching enabled, when a call that inserted a cache entry
\* returns, each file holds the JSON text of its in-memory cache.
C10_FlushedAfterInsert ==
    /\ use_storage_for_cache
    /\ IsSimpleFetch(lastCall) \/ IsArticleInfo(lastCall) \/ IsArticleContents(lastCall)
    /\ lastCall.inserted
    => /\ file_simple_fetch = File(json_dumps_simple_fetch(cached_simple_fetch))
       /\ file_articles_info = File(json_dumps_articles_info(cached_articles_info))

\* An insertion into the second cache to be filled.
C10_Witness ==
    /\ use_storage_for_cache
    /\ IsSimpleFetch(lastCall) \/ IsArticleInfo(lastCall)
    /\ lastCall.inserted
    /\ cached_simple_fetch # EmptyDict
    /\ cached_articles_info # EmptyDict

\* A call with cached = false on a documented argument: srcs is None or a
\* list for simple_fetch, a URL for retrieve_article_info.
UncachedCall(call) ==
    /\ ~call.cached
    /\ \/ IsSimpleFetch(call) /\ call.arg.kind # "Feed"
       \/ IsArticleInfo(call)

\* C11: a call with cached = false always goes to the network, even when
\* its key is in the cache, and leaves both in-memory caches and both cache
\* files as they were, whether the fetch succeeds or not.
C11_UncachedCallFetchesAndStoresNothing ==
    [][UncachedCall(lastCall')
          => /\ lastCall'.net
             /\ ~lastCall'.inserted
             /\ UNCHANGED <<cached_simple_fetch, cached_articles_info,
                            file_simple_fetch, file_articles_info>>]_vars

\* A cached = false simple_fetch that fetched a list although its key was
\* in the cache, on a Fetcher with disk caching enabled.
C11_Witness ==
    /\ IsSimpleFetch(lastCall)
    /\ UncachedCall(lastCall)
    /\ lastCall.net
    /\ lastCall.succeeded
    /\ use_storage_for_cache
    /\ simple_CACHE_KEY(lastCall.arg) \in DOMAIN cached_simple_fetch

\* requests.get raised in the call.
GotTransportFailure(call) ==
    IsArticleInfo(call) /\ call.resp.kind = "RequestException"

\* C12: on a transport failure retrieve_article_info returns a record with
\* exactly the keys text (the error message) and success = false, and both
\* caches and both cache files are left as they were.
C12_TransportFailureRecord ==
    [][GotTransportFailure(lastCall')
          => /\ ~lastCall'.raised
             /\ DOMAIN lastCall'.result = {"text", "success"}
             /\ lastCall'.result.text = lastCall'.resp.message
             /\ lastCall'.result.success = FALSE
             /\ UNCHANGED <<cached_simple_fetch, cached_articles_info,
                            file_simple_fetch, file_articles_info>>]_vars

\* A transport failure of a cached = true call on a Fetcher with disk
\* caching enabled and a filled simple_fetch cache.
C12_Witness ==
    /\ GotTransportFailure(lastCall)
    /\ lastCall.cached
    /\ use_storage_for_cache
    /\ cached_simple_fetch # EmptyDict
    /\ file_simple_fetch.exists

\* The call got a status in [200,300) and the extraction raised.
GotExtractionFailure(call) ==
    /\ IsArticleInfo(call)
    /\ call.resp.kind = "response"
    /\ IsSuccessStatus(call.resp.status_code)
    /\ ~call.resp.extracted

ExtractionFailureRecord(call) ==
    /\ ~call.raised
    /\ DOMAIN call.result = {"text", "status_code", "success"}
    /\ call.result.text = call.resp.text
    /\ call.result.status_code = call.resp.status_code
    /\ call.result.success = FALSE
    /\ ~call.inserted

\* C13 as stated: when the extraction raises, the record has success =
\* false, text and status_code and no plain_text, is not stored, and the
\* next cached = true call for the same URL fetches again.
C13_Original ==
    [][/\ GotExtractionFailure(lastCall') => ExtractionFailureRecord(lastCall')
       /\ GotExtractionFailure(lastCall) /\ IsArticleInfo(lastCall')
            /\ lastCall'.arg = lastCall.arg /\ lastCall'.cached
          => lastCall'.net]_vars

\* C13 amended: when the extraction raises, the record has success = false,
\* text and status_code and no plain_text, and the call leaves the article
\* cache as it was; a later cached = true call for the same URL fetches
\* again unless the URL is in the cache from an earlier successful call.
C13_ExtractionFailureNotStored ==
    [][/\ GotExtractionFailure(lastCall')
          => /\ ExtractionFailureRecord(lastCall')
             /\ UNCHANGED <<cached_articles_info, file_articles_info>>
       /\ GotExtractionFailure(lastCall) /\ IsArticleInfo(lastCall')
            /\ lastCall'.arg = lastCall.arg /\ lastCall'.cached
            /\ article_CACHE_KEY(lastCall.arg) \notin DOMAIN cached_articles_info
          => lastCall'.net]_vars

\* The extraction failed again in a cached = true call that followed a
\* failed call for the same URL: nothing had been stored.
C13_Witness ==
    /\ GotExtractionFailure(lastCall)
    /\ lastCall.cached
    /\ lastCall.net
    /\ lastCall.previous = "same, failed"
    /\ cached_articles_info = EmptyDict

\* The sources a fetch call goes through.
SourcesOf(srcs) ==
    IF srcs.kind = "None" THEN feeds
    ELSE IF srcs.kind = "Feed" THEN <<srcs.feed>>
    ELSE srcs.list

Count(e, seq) == Cardinality({i \in DOMAIN seq : seq[i] = e})

\* How often e is among the entries of the sources that parsed.
ParsedCount(e, sources, answers) ==
    LET n(i) == IF answers[sources[i].url].ok
                THEN Count(e, answers[sources[i].url].entries) ELSE 0
        sum[i \in 0..Len(sources)] == IF i = 0 THEN 0 ELSE sum[i - 1] + n(i)
    IN  sum[Len(sources)]

EntriesOfAnswers(answers) ==
    UNION {{answers[u].entries[i] : i \in DOMAIN answers[u].entries} :
             u \in DOMAIN answers}

ExactlyTheParsedEntries(call) ==
    /\ ~call.raised
    /\ \A e \in EntriesOfAnswers(call.answers) :
          Count(e, call.result) = ParsedCount(e, SourcesOf(call.arg), call.answers)
    /\ \A i \in DOMAIN call.result :
          call.result[i] \in EntriesOfAnswers(call.answers)

\* A source that parsed has an entry without publication time.
HasUndatedEntry(call) ==
    \E i \in DOMAIN SourcesOf(call.arg) :
        LET answer == call.answers[SourcesOf(call.arg)[i].url]
        IN  answer.ok /\ \E k \in DOMAIN answer.entries :
                            answer.entries[k].published_parsed = NoTime

\* C14 as stated: a source whose parsing fails is skipped, the returned
\* list holds exactly the entries of the sources that parsed, and no
\* exception reaches the caller.
C14_Original ==
    lastCall.op = "fetch" => ExactlyTheParsedEntries(lastCall)

\* C14 amended: a source whose parsing fails is skipped and raises
\* nothing; when every entry of the sources that parsed has a publication
\* time, the returned list holds exactly the entries of those sources; when
\* one has none, the sort raises to the caller.
C14_FailingSourcesSkipped ==
    lastCall.op = "fetch"
        => IF HasUndatedEntry(lastCall)
           THEN lastCall.raised
           ELSE ExactlyTheParsedEntries(lastCall)

\* A failing source stood before a source that parsed, and entries were
\* returned.
C14_Witness ==
    /\ lastCall.op = "fetch"
    /\ ~lastCall.raised
    /\ lastCall.result # <<>>
    /\ \E i, j \in DOMAIN SourcesOf(lastCall.arg) :
          /\ i < j
          /\ ~lastCall.answers[SourcesOf(lastCall.arg)[i].url].ok
          /\ lastCall.answers[SourcesOf(lastCall.arg)[j].url].ok
          /\ lastCall.answers[SourcesOf(lastCall.arg)[j].url].entries # <<>>

\* The step made a new Fetcher with the given flag.
Constructed(flag) == lastCall'.op = "__init__" /\ use_storage_for_cache' = flag

\* What a new Fetcher with disk caching holds: each cache is the content of
\* its own file, or empty when the file is missing.
LoadedFromOwnFiles ==
    /\ ~lastCall'.raised
    /\ IF file_simple_fetch.exists
       THEN json_dumps_simple_fetch(cached_simple_fetch') = file_simple_fetch.content
       ELSE cached_simple_fetch' = EmptyDict
    /\ IF file_articles_info.exists
       THEN json_dumps_articles_info(cached_articles_info') = file_articles_info.content
       ELSE cached_articles_info' = EmptyDict

StartsEmpty ==
    cached_simple_fetch' = EmptyDict /\ cached_articles_info' = EmptyDict

\* C15 as stated: a Fetcher made with the flag disabled starts with empty
\* caches and none of its operations changes a cache file; one made with the
\* flag enabled loads each cache from its own file, a missing file leaving
\* the cache empty.
C15_Original ==
    [][/\ Constructed(FALSE) => StartsEmpty
       /\ ~use_storage_for_cache /\ lastCall'.op # "__init__"
          => UNCHANGED <<file_simple_fetch, file_articles_info>>
       /\ Constructed(TRUE) => LoadedFromOwnFiles]_vars

\* C15 amended: a Fetcher made with the flag disabled starts with empty
\* caches and no call of simple_fetch, retrieve_article_info,
\* retrieve_article_contents or readCacheFromStorage changes a cache file
\* (saveCacheToStorage called directly writes both files whatever the
\* flag); one made with the flag enabled loads each cache from its own
\* file, a missing file leaving the cache empty.
C15_FlagControlsImplicitFileAccess ==
    [][/\ Constructed(FALSE) => StartsEmpty
       /\ ~use_storage_for_cache
            /\ lastCall'.op \in {"simple_fetch", "retrieve_article_info",
                                 "retrieve_article_contents",
                                 "readCacheFromStorage"}
          => UNCHANGED <<file_simple_fetch, file_articles_info>>
       /\ Constructed(TRUE) => LoadedFromOwnFiles]_vars

\* A Fetcher without disk caching stored a record next to a file that holds
\* something else.
C15_Witness ==
    /\ ~use_storage_for_cache
    /\ lastCall.inserted
    /\ file_articles_info.exists
    /\ file_articles_info.content # EmptyDict
    /\ file_articles_info.content # json_dumps_articles_info(cached_articles_info)


\* The URLs of the entries the sources of a request can give.
UrlsOfferedBy(srcs) ==
    LET offered == UNION {FeedAnswers(SourcesOf(srcs)[i].url) :
                            i \in DOMAIN SourcesOf(srcs)}
    IN  UNION {{answer.entries[k].href : k \in DOMAIN answer.entries} :
                 answer \in offered}

\* simple_fetch answered from the cache.
ServedFromCache(call) ==
    IsSimpleFetch(call) /\ call.cached /\ ~call.net /\ ~call.raised

\* C16: a cached = true simple_fetch answered from the cache returns only
\* entries of the sources it was asked for; with an explicitly given empty
\* source list it does not return the list cached for the default sources.
C16_Original ==
    ServedFromCache(lastCall)
        => \A i \in DOMAIN lastCall.result :
              lastCall.result[i].url \in UrlsOfferedBy(lastCall.arg)


\* The file is still there and holds every key it held, with its value.
FileKept(before, after) ==
    before.exists => after.exists /\ Kept(before.content, after.content)

\* C17: no operation of a Fetcher with disk caching enabled removes a key
\* from a cache file or changes its value there.
C17_PersistedCachesOnlyGrow ==
    [][use_storage_for_cache /\ lastCall'.op # "__init__"
          => /\ FileKept(file_simple_fetch, file_simple_fetch')
             /\ FileKept(file_articles_info, file_articles_info')]_vars

\* A Fetcher with disk caching enabled that had loaded a list from the
\* simple_fetch file stored an article record, and the flush kept the list.
C17_Witness ==
    /\ use_storage_for_cache
    /\ IsArticleInfo(lastCall)
    /\ lastCall.inserted
    /\ \E k \in DOMAIN cached_simple_fetch :
          /\ cached_simple_fetch[k][1].published_on.type = "list"
          /\ k \in DOMAIN file_simple_fetch.content

====
